---- MODULE Spec2Model ----
\* Model of the Aessefin ticket router (src/main.py): the /webhook handler, the
\* title builder, the attachment filter, the oracle-verdict validation and the
\* rejection mail.  Text is a sequence of one-character strings, so trimming,
\* case folding, prefix stripping, truncation and substring search are computed
\* the way the Python code computes them.
EXTENDS Integers, Sequences, FiniteSets, TLC

\* ------------------------------------------------------------------ bounds
\* longest description generated, in words (the word-count rule is at 10)
MaxWords == 11
\* number of text pieces concatenated into a title candidate
MaxPieces == 3
\* number of entries in an attachment list handed to the filter
MaxUrls == 3

\* ------------------------------------------------------- program constants
\* build_title_with_category(..., max_len: int = 30)
max_len == 30
\* if words < 10 and not is_ops
MIN_WORDS == 10

\* --------------------------------------------------------------- literals
CAT_CRM == <<"C", "R", "M">>
CAT_AMMINISTRAZIONE == <<"A", "M", "M", "I", "N", "I", "S", "T", "R", "A", "Z", "I", "O", "N", "E">>
CAT_CONSOLE == <<"C", "O", "N", "S", "O", "L", "E">>
CAT_OPERATIONS == <<"O", "P", "E", "R", "A", "T", "I", "O", "N", "S", " ", "(", "C", "a", "m", "b", "i", " ", "a", "s", "s", "e", "g", "a", "n", "z", "i", "o", "n", "e", ",", " ", "e", "t", "c", ".", ")">>
OPERATIONS_WORD == <<"O", "P", "E", "R", "A", "T", "I", "O", "N", "S">>
TICKET == <<"T", "i", "c", "k", "e", "t">>
DRIVE_HOST == <<"d", "r", "i", "v", "e", ".", "g", "o", "o", "g", "l", "e", ".", "c", "o", "m">>
DOCS_HOST == <<"d", "o", "c", "s", ".", "g", "o", "o", "g", "l", "e", ".", "c", "o", "m">>
PRI_URGENTE == <<"U", "R", "G", "E", "N", "T", "E">>
PRI_MEDIA == <<"M", "E", "D", "I", "A">>
PRI_ALTA == <<"A", "L", "T", "A">>
PRI_BASSA == <<"B", "A", "S", "S", "A">>
CREATE == <<"c", "r", "e", "a", "t", "e">>
UpperLetters == <<"A", "B", "C", "D", "E", "F", "G", "H", "I", "J", "K", "L", "M", "N", "O", "P", "Q", "R", "S", "T", "U", "V", "W", "X", "Y", "Z">>
LowerLetters == <<"a", "b", "c", "d", "e", "f", "g", "h", "i", "j", "k", "l", "m", "n", "o", "p", "q", "r", "s", "t", "u", "v", "w", "x", "y", "z">>
\* the one-character U+2026, U+2013 and U+2014 are written as named characters
ELLIPSIS == "<ellipsis>"
EN_DASH == "<endash>"
EM_DASH == "<emdash>"

VALID_CATEGORIES == {CAT_CRM, CAT_AMMINISTRAZIONE, CAT_CONSOLE, CAT_OPERATIONS}
VALID_PRIORITIES == {PRI_URGENTE, PRI_MEDIA, PRI_ALTA, PRI_BASSA}

\* ----------------------------------------------------- Python str methods
MinOf(S) == CHOOSE x \in S : \A y \in S : x <= y
MaxOf(S) == CHOOSE x \in S : \A y \in S : x >= y

\* what str.strip(), str.split() and the regex \s treat as white space
IsSpace(c) == c \in {" ", "\t", "\n", "\r", "\f"}

\* str.lower() on one character
ToLower(c) ==
  IF \E i \in 1..26 : UpperLetters[i] = c
  THEN LowerLetters[CHOOSE i \in 1..26 : UpperLetters[i] = c]
  ELSE c

\* str.upper() on one character
ToUpper(c) ==
  IF \E i \in 1..26 : LowerLetters[i] = c
  THEN UpperLetters[CHOOSE i \in 1..26 : LowerLetters[i] = c]
  ELSE c

Lower(s) == [i \in 1..Len(s) |-> ToLower(s[i])]
Upper(s) == [i \in 1..Len(s) |-> ToUpper(s[i])]

Drop(s, n) == SubSeq(s, n + 1, Len(s))

LStrip(s) ==
  LET solid == {i \in 1..Len(s) : ~IsSpace(s[i])}
  IN  IF solid = {} THEN <<>> ELSE Drop(s, MinOf(solid) - 1)

RStrip(s) ==
  LET solid == {i \in 1..Len(s) : ~IsSpace(s[i])}
  IN  IF solid = {} THEN <<>> ELSE SubSeq(s, 1, MaxOf(solid))

\* str.strip()
Strip(s) == RStrip(LStrip(s))

\* str.startswith(p)
StartsWith(s, p) == Len(s) >= Len(p) /\ SubSeq(s, 1, Len(p)) = p

\* `p in s` for strings
Contains(s, p) ==
  \E i \in 0..(Len(s) - Len(p)) : SubSeq(s, i + 1, i + Len(p)) = p

\* len(s.split()): the number of maximal runs of non-space characters
WordCount(s) ==
  Cardinality({i \in 1..Len(s) : ~IsSpace(s[i]) /\ (i = 1 \/ IsSpace(s[i - 1]))})

\* ------------------------------------------------ helpers (title, filters)
\* the `cats` alternation of strip_any_leading_category, in its order
LeadingCategoryPatterns == <<CAT_CRM, CAT_AMMINISTRAZIONE, CAT_CONSOLE, CAT_OPERATIONS>>

\* [:\-–—]
TagPunctuation == {":", "-", EN_DASH, EM_DASH}

\* re.sub(r"^\s*(?:cats)\s*[:\-–—]?\s*", "", text.strip(), flags=re.IGNORECASE).strip()
strip_any_leading_category(text) ==
  IF text = <<>> THEN text
  ELSE
    LET t == Strip(text)
        hit == {k \in 1..Len(LeadingCategoryPatterns) :
                  StartsWith(Lower(t), Lower(LeadingCategoryPatterns[k]))}
    IN  IF hit = {} THEN t
        ELSE
          LET afterCat == LStrip(Drop(t, Len(LeadingCategoryPatterns[MinOf(hit)])))
              afterPunct == IF afterCat # <<>> /\ afterCat[1] \in TagPunctuation
                            THEN Tail(afterCat) ELSE afterCat
          IN  Strip(afterPunct)

build_title_with_category(category, candidate) ==
  LET stripped == strip_any_leading_category(candidate)
      core == IF stripped = <<>> THEN TICKET ELSE stripped
      clean == category \o <<":", " ">> \o core
  IN  IF Len(clean) <= max_len THEN clean
      ELSE SubSeq(clean, 1, max_len - 1) \o <<ELLIPSIS>>

\* re.split(r"[.!?\n]", clean, maxsplit=1)[0].strip()
first_sentence(text) ==
  IF text = <<>> THEN TICKET
  ELSE
    LET clean == strip_any_leading_category(text)
        stops == {i \in 1..Len(clean) : clean[i] \in {".", "!", "?", "\n"}}
        head == IF stops = {} THEN clean ELSE SubSeq(clean, 1, MinOf(stops) - 1)
        sent == Strip(head)
    IN  IF sent = <<>> THEN TICKET ELSE sent

\* an entry of a JSON list: a string (kind "str", text s) or something else
IsDriveLink(u) ==
  u.kind = "str" /\ (Contains(u.s, DRIVE_HOST) \/ Contains(u.s, DOCS_HOST))

\* the filter with the host test forgotten: every string passes
IsString(u) == u.kind = "str"
filter_drive_links_any_string(urls) == SelectSeq(urls, IsString)

filter_drive_links(urls) == SelectSeq(urls, IsDriveLink)


\* ------------------------------------------------------------ JSON values
\* a JSON value read with dict.get: the key is absent, or holds null, a string
\* (text s) or a non-empty value of another type (a number)
Absent == [kind |-> "absent", s |-> <<>>]
Null == [kind |-> "null", s |-> <<>>]
Num == [kind |-> "num", s |-> <<>>]
Str(s) == [kind |-> "str", s |-> s]

\* `d.get(k) or ""` followed by a str method: raises on a non-empty non-string
OrEmptyRaises(v) == v.kind = "num"
OrEmpty(v) == IF v.kind = "str" THEN v.s ELSE <<>>

\* `d.get(k, "")` followed by a str method: raises on null and on a non-string
GetDefaultRaises(v) == v.kind \in {"null", "num"}
GetDefault(v) == IF v.kind = "str" THEN v.s ELSE <<>>

\* "\n".join(list of strings)
RECURSIVE JoinLines(_)
JoinLines(urls) ==
  IF urls = <<>> THEN <<>>
  ELSE IF Len(urls) = 1 THEN urls[1].s
  ELSE urls[1].s \o <<"\n">> \o JoinLines(Tail(urls))

\* ------------------------------------------------------------------ state
VARIABLES
  pc,            \* where the /webhook handler is: start, call_gemini, route, monday_create, done
  cfg,           \* the environment the module was loaded with
  request,       \* the X-Forms-Secret header and the JSON body of the request
  oracle_reply,  \* how the Gemini endpoint answered this request
  ai_decision,   \* the handler's ai_decision (None until Gemini answers with JSON)
  gemini_calls,  \* POSTs made to the Gemini endpoint
  pending,       \* the (item_name, column_values) the handler is about to create
  monday_calls,  \* POSTs made to api.monday.com, in order
  smtp_log,      \* SMTP connections attempted, in order
  response,      \* the HTTP response of the handler
  t_pc, t_category, t_candidate, t_title, t_retitle,   \* a run of the title builder
  f_pc, f_urls, f_out                                   \* a run of the attachment filter

vars == <<pc, cfg, request, oracle_reply, ai_decision, gemini_calls, pending,
          monday_calls, smtp_log, response,
          t_pc, t_category, t_candidate, t_title, t_retitle, f_pc, f_urls, f_out>>

webhook_vars == <<pc, cfg, request, oracle_reply, ai_decision, gemini_calls, pending,
                  monday_calls, smtp_log, response>>
title_vars == <<t_pc, t_category, t_candidate, t_title, t_retitle>>
filter_vars == <<f_pc, f_urls, f_out>>

\* FORMS_SHARED_SECRET = os.getenv("FORMS_SHARED_SECRET", "forms-shared-secret-123")
FORMS_SHARED_SECRET == "forms-shared-secret-123"
\* x_forms_secret: Optional[str] = Header(None)
NoHeader == "<None>"

\* the six MONDAY_COLUMN_* settings
ColumnNames == {"COL_DESCRIPTION", "COL_EMAIL", "COL_CATEGORY", "COL_PRIORITY",
                "COL_ATTACHMENTS", "COL_LINK_LONGTXT"}

\* the locals of webhook read from the body: (p.get(k) or "").strip()
description == Strip(request.p.description)
categoria == Strip(request.p.categoria)
priorita == Strip(request.p.priorita)
reporter_email == Strip(request.p.email)
link_of_record == Strip(request.p.link_of_record)
attachments == request.p.attachments

\* --------------------------------------------------------- oracle verdicts
NoFields == [kind |-> "absent", Descrizione |-> Absent, Allegati |-> <<>>,
             Link |-> Absent, Email |-> [kind |-> "absent", email |-> <<>>, text |-> <<>>]]
NoVerdict == [next_action |-> Absent, router_decision |-> Absent, categoria |-> Absent,
              priorita |-> Absent, normalized_title |-> Absent, monday_fields |-> NoFields]
\* ai_decision: None, or the parsed JSON: an object (v), {} or a non-object
AiNone == [kind |-> "none", v |-> NoVerdict]
AiObject(v) == [kind |-> "obj", v |-> v]
AiEmptyObject == [kind |-> "emptyobj", v |-> NoVerdict]
AiList == [kind |-> "list", v |-> NoVerdict]

\* `if ai_decision:`
Truthy(ai) == ai.kind \in {"obj", "list"}

NoNorm == [title |-> <<>>, categoria |-> <<>>, priorita |-> <<>>, fields |-> NoFields]

\* the validation with the comparison against the form's category forgotten
validate_ai_output_no_form_check(ai, form_categoria) ==
  LET v == ai.v
      invalid == [accepted |-> FALSE, reason |-> "invalid_ai_response", norm |-> NoNorm]
      next_action == Strip(Lower(OrEmpty(v.next_action)))
      router_dec == Strip(Lower(OrEmpty(v.router_decision)))
      cat == Strip(GetDefault(v.categoria))
      pri == Strip(GetDefault(v.priorita))
      title == Strip(OrEmpty(v.normalized_title))
  IN  IF ai.kind # "obj" THEN invalid
      ELSE IF OrEmptyRaises(v.next_action) \/ OrEmptyRaises(v.router_decision) THEN invalid
      ELSE IF next_action # CREATE \/ router_dec # CREATE
        THEN [accepted |-> FALSE, reason |-> "ask_clarify", norm |-> NoNorm]
      ELSE IF GetDefaultRaises(v.categoria) \/ GetDefaultRaises(v.priorita)
              \/ OrEmptyRaises(v.normalized_title) THEN invalid
      ELSE IF cat \notin VALID_CATEGORIES
        THEN [accepted |-> FALSE, reason |-> "categoria_mismatch", norm |-> NoNorm]
      ELSE IF pri \notin VALID_PRIORITIES
        THEN [accepted |-> FALSE, reason |-> "priorita_invalid", norm |-> NoNorm]
      ELSE IF title = <<>>
        THEN [accepted |-> FALSE, reason |-> "title_missing", norm |-> NoNorm]
      ELSE IF v.monday_fields.kind = "list" THEN invalid
      ELSE [accepted |-> TRUE, reason |-> "",
            norm |-> [title |-> title, categoria |-> cat, priorita |-> pri,
                      fields |-> v.monday_fields]]

validate_ai_output(ai, form_categoria) ==
  LET v == ai.v
      invalid == [accepted |-> FALSE, reason |-> "invalid_ai_response", norm |-> NoNorm]
      next_action == Strip(Lower(OrEmpty(v.next_action)))
      router_dec == Strip(Lower(OrEmpty(v.router_decision)))
      cat == Strip(GetDefault(v.categoria))
      pri == Strip(GetDefault(v.priorita))
      title == Strip(OrEmpty(v.normalized_title))
  IN  IF ai.kind # "obj" THEN invalid
      ELSE IF OrEmptyRaises(v.next_action) \/ OrEmptyRaises(v.router_decision) THEN invalid
      ELSE IF next_action # CREATE \/ router_dec # CREATE
        THEN [accepted |-> FALSE, reason |-> "ask_clarify", norm |-> NoNorm]
      ELSE IF GetDefaultRaises(v.categoria) \/ GetDefaultRaises(v.priorita)
              \/ OrEmptyRaises(v.normalized_title) THEN invalid
      ELSE IF cat # form_categoria \/ cat \notin VALID_CATEGORIES
        THEN [accepted |-> FALSE, reason |-> "categoria_mismatch", norm |-> NoNorm]
      ELSE IF pri \notin VALID_PRIORITIES
        THEN [accepted |-> FALSE, reason |-> "priorita_invalid", norm |-> NoNorm]
      ELSE IF title = <<>>
        THEN [accepted |-> FALSE, reason |-> "title_missing", norm |-> NoNorm]
      ELSE IF v.monday_fields.kind = "list" THEN invalid
      ELSE [accepted |-> TRUE, reason |-> "",
            norm |-> [title |-> title, categoria |-> cat, priorita |-> pri,
                      fields |-> v.monday_fields]]


\* ------------------------------------------------------- rejection e-mail
\* the mail sender with the test for an empty recipient forgotten
send_reject_email_any_recipient(to_email) ==
  IF ~(cfg.SMTP_USER_REJECT /\ cfg.SMTP_PASS_REJECT)
  THEN {[ok |-> FALSE, connections |-> <<>>]}
  ELSE {[ok |-> TRUE, connections |-> <<"STARTTLS">>],
        [ok |-> TRUE, connections |-> <<"STARTTLS", "SSL">>],
        [ok |-> FALSE, connections |-> <<"STARTTLS", "SSL">>]}

\* send_reject_email(to_email): the results it can return, each with the SMTP
\* connections it opened.  Nothing is opened when the mailbox is not configured
\* or the recipient is empty; otherwise STARTTLS is tried, then SSL on failure.
send_reject_email(to_email) ==
  IF ~(cfg.SMTP_USER_REJECT /\ cfg.SMTP_PASS_REJECT /\ to_email # <<>>)
  THEN {[ok |-> FALSE, connections |-> <<>>]}
  ELSE {[ok |-> TRUE, connections |-> <<"STARTTLS">>],
        [ok |-> TRUE, connections |-> <<"STARTTLS", "SSL">>],
        [ok |-> FALSE, connections |-> <<"STARTTLS", "SSL">>]}

\* ------------------------------------------------------------- call_gemini
\* how the POST to Gemini can end; "json" carries the parsed text
OracleFailures == {"transport_error", "timeout", "http_error", "bad_shape",
                   "empty_text", "not_json"}
NotAsked == [kind |-> "not_asked", value |-> AiNone]
Failure(k) == [kind |-> k, value |-> AiNone]
Json(value) == [kind |-> "json", value |-> value]

\* call_gemini answering an error object instead of None when the call fails
call_gemini_error_object(reply) ==
  IF reply.kind = "json" THEN reply.value ELSE AiObject(NoVerdict)

\* what call_gemini returns for a reply: None on every exception and on empty
\* text, else json.loads(text) (JSON null loads as None)
call_gemini(reply) == IF reply.kind = "json" THEN reply.value ELSE AiNone

\* ------------------------------------------------------------ the handler
NoColumn == [set |-> FALSE, v |-> <<>>]
Column(name, v) == IF name \in cfg.columns THEN [set |-> TRUE, v |-> v] ELSE NoColumn
NoPending == [item_name |-> <<>>, source |-> "",
              column_values |-> [description |-> NoColumn, email |-> NoColumn,
                                 category |-> NoColumn, priority |-> NoColumn,
                                 attachments |-> NoColumn, link |-> NoColumn]]
NoResponse == [status |-> 0, ok |-> FALSE, source |-> "", reason |-> "",
               email_sent |-> "n/a", used_title |-> <<>>]

\* the secret check made only when the header is present
Authenticate_header_optional ==
  /\ pc = "start"
  /\ IF request.x_forms_secret # NoHeader /\ request.x_forms_secret # FORMS_SHARED_SECRET
     THEN /\ pc' = "done"
          /\ response' = [NoResponse EXCEPT !.status = 401, !.reason = "bad secret"]
     ELSE /\ pc' = "call_gemini"
          /\ UNCHANGED response
  /\ UNCHANGED <<cfg, request, oracle_reply, ai_decision, gemini_calls, pending,
                 monday_calls, smtp_log>>
  /\ UNCHANGED <<title_vars, filter_vars>>

\* if x_forms_secret != FORMS_SHARED_SECRET: raise HTTPException(401)
Authenticate ==
  /\ pc = "start"
  /\ IF request.x_forms_secret # FORMS_SHARED_SECRET
     THEN /\ pc' = "done"
          /\ response' = [NoResponse EXCEPT !.status = 401, !.reason = "bad secret"]
     ELSE /\ pc' = "call_gemini"
          /\ UNCHANGED response
  /\ UNCHANGED <<cfg, request, oracle_reply, ai_decision, gemini_calls, pending,
                 monday_calls, smtp_log>>
  /\ UNCHANGED <<title_vars, filter_vars>>

\* ai_decision = await call_gemini({...})
CallGemini(Replies) ==
  /\ pc = "call_gemini"
  /\ IF ~cfg.GEMINI_API_KEY
     THEN /\ oracle_reply' = NotAsked
          /\ ai_decision' = AiNone
          /\ UNCHANGED gemini_calls
     ELSE \E reply \in Replies :
            /\ oracle_reply' = reply
            /\ ai_decision' = call_gemini(reply)
            /\ gemini_calls' = gemini_calls + 1
  /\ pc' = "route"
  /\ UNCHANGED <<cfg, request, pending, monday_calls, smtp_log, response>>
  /\ UNCHANGED <<title_vars, filter_vars>>

\* the column values of the Gemini branch
AiColumnValues(norm) ==
  LET fields == norm.fields
      allegati == IF fields.Allegati # <<>> THEN fields.Allegati ELSE attachments
  IN  [description |-> Column("COL_DESCRIPTION",
                        IF OrEmpty(fields.Descrizione) # <<>>
                        THEN fields.Descrizione.s ELSE description),
       email |-> Column("COL_EMAIL", <<fields.Email.email, fields.Email.text>>),
       category |-> Column("COL_CATEGORY", categoria),
       priority |-> Column("COL_PRIORITY", priorita),
       attachments |-> Column("COL_ATTACHMENTS", JoinLines(filter_drive_links(allegati))),
       link |-> Column("COL_LINK_LONGTXT", GetDefault(fields.Link))]

\* if ai_decision: ... if accepted: build the item and go on to monday_create
AcceptByAI ==
  /\ pc = "route"
  /\ Truthy(ai_decision)
  /\ LET res == validate_ai_output(ai_decision, categoria)
         final_title == build_title_with_category(categoria, res.norm.title)
     IN  /\ res.accepted
         /\ IF "COL_EMAIL" \in cfg.columns /\ res.norm.fields.Email.kind = "str"
            THEN \* email_obj.get on a str: AttributeError, an unhandled 500
                 /\ pc' = "done"
                 /\ response' = [NoResponse EXCEPT !.status = 500]
                 /\ UNCHANGED pending
            ELSE /\ pc' = "monday_create"
                 /\ pending' = [item_name |-> final_title, source |-> "gemini",
                                column_values |-> AiColumnValues(res.norm)]
                 /\ UNCHANGED response
  /\ UNCHANGED <<cfg, request, oracle_reply, ai_decision, gemini_calls, monday_calls,
                 smtp_log>>
  /\ UNCHANGED <<title_vars, filter_vars>>

\* AI rejected -> email the user
RejectByAI ==
  /\ pc = "route"
  /\ Truthy(ai_decision)
  /\ LET res == validate_ai_output(ai_decision, categoria)
     IN  /\ ~res.accepted
         /\ \E sent \in send_reject_email(reporter_email) :
              /\ smtp_log' = smtp_log \o sent.connections
              /\ response' = [NoResponse EXCEPT !.status = 200, !.ok = FALSE,
                                !.reason = "Rejected by AI: " \o res.reason,
                                !.email_sent = IF sent.ok THEN "true" ELSE "false"]
  /\ pc' = "done"
  /\ UNCHANGED <<cfg, request, oracle_reply, ai_decision, gemini_calls, pending,
                 monday_calls>>
  /\ UNCHANGED <<title_vars, filter_vars>>

\* the fallback rule: words < 10 and not is_ops
words == WordCount(strip_any_leading_category(description))
is_ops == StartsWith(Upper(categoria), OPERATIONS_WORD)
TooShort == words < MIN_WORDS /\ ~is_ops

RejectByRules ==
  /\ pc = "route"
  /\ ~Truthy(ai_decision)
  /\ TooShort
  /\ \E sent \in send_reject_email(reporter_email) :
       /\ smtp_log' = smtp_log \o sent.connections
       /\ response' = [NoResponse EXCEPT !.status = 200, !.ok = FALSE,
                         !.reason = "Rejected: description too short/vague",
                         !.email_sent = IF sent.ok THEN "true" ELSE "false"]
  /\ pc' = "done"
  /\ UNCHANGED <<cfg, request, oracle_reply, ai_decision, gemini_calls, pending,
                 monday_calls>>
  /\ UNCHANGED <<title_vars, filter_vars>>

\* the column values of the rules branch
RulesColumnValues ==
  [description |-> Column("COL_DESCRIPTION", description),
   email |-> Column("COL_EMAIL", <<reporter_email, reporter_email>>),
   category |-> Column("COL_CATEGORY", categoria),
   priority |-> Column("COL_PRIORITY", priorita),
   attachments |-> IF attachments # <<>>
                   THEN Column("COL_ATTACHMENTS", JoinLines(filter_drive_links(attachments)))
                   ELSE NoColumn,
   link |-> IF link_of_record # <<>>
            THEN Column("COL_LINK_LONGTXT", link_of_record) ELSE NoColumn]

AcceptByRules ==
  /\ pc = "route"
  /\ ~Truthy(ai_decision)
  /\ ~TooShort
  /\ pending' = [item_name |-> build_title_with_category(categoria, first_sentence(description)),
                 source |-> "rules",
                 column_values |-> RulesColumnValues]
  /\ pc' = "monday_create"
  /\ UNCHANGED <<cfg, request, oracle_reply, ai_decision, gemini_calls, monday_calls,
                 smtp_log, response>>
  /\ UNCHANGED <<title_vars, filter_vars>>

\* created = await monday_create(final_title, col_vals): the POST is made, and
\* ends in a created item, in an httpx error (unhandled: 500) or in a body with
\* "errors" (HTTPException 502)
monday_create ==
  /\ pc = "monday_create"
  /\ monday_calls' = Append(monday_calls, [item_name |-> pending.item_name,
                                           column_values |-> pending.column_values])
  /\ \E outcome \in {"created", "http_error", "errors"} :
       response' = IF outcome = "created"
                   THEN [NoResponse EXCEPT !.status = 200, !.ok = TRUE,
                           !.source = pending.source, !.used_title = pending.item_name]
                   ELSE IF outcome = "errors"
                   THEN [NoResponse EXCEPT !.status = 502]
                   ELSE [NoResponse EXCEPT !.status = 500]
  /\ pc' = "done"
  /\ UNCHANGED <<cfg, request, oracle_reply, ai_decision, gemini_calls, pending, smtp_log>>
  /\ UNCHANGED <<title_vars, filter_vars>>


\* ------------------------------------------------------------ input texts
TXT_FOO == <<"F", "O", "O">>
TXT_CRM_PADDED == <<" ", "C", "R", "M", " ">>
TXT_OPERATIONS_LOWER == <<"o", "p", "e", "r", "a", "t", "i", "o", "n", "s", " ", "v", "a", "r", "i", "e">>
TXT_HIGH == <<"H", "I", "G", "H">>
TXT_ALTA_PADDED == <<" ", "A", "L", "T", "A", " ">>
TXT_CREATE_UPPER == <<" ", "C", "r", "e", "a", "t", "e", " ">>
TXT_ASK_CLARIFY == <<"a", "s", "k", "_", "c", "l", "a", "r", "i", "f", "y">>
TXT_EMAIL == <<"a", "@", "b", ".", "i", "t">>
TXT_LINK == <<"h", "t", "t", "p", "s", ":", "/", "/", "r", "e", "c", "/", "1">>
URL_DRIVE == <<"h", "t", "t", "p", "s", ":", "/", "/", "d", "r", "i", "v", "e", ".", "g", "o", "o", "g", "l", "e", ".", "c", "o", "m", "/", "f", "i", "l", "e", "/", "d", "/", "1">>
URL_DOCS == <<"h", "t", "t", "p", "s", ":", "/", "/", "d", "o", "c", "s", ".", "g", "o", "o", "g", "l", "e", ".", "c", "o", "m", "/", "d", "/", "2">>
URL_EVIL == <<"h", "t", "t", "p", "s", ":", "/", "/", "e", "v", "i", "l", ".", "e", "x", "a", "m", "p", "l", "e", "/", "x">>
URL_UPPER == <<"h", "t", "t", "p", "s", ":", "/", "/", "D", "R", "I", "V", "E", ".", "G", "O", "O", "G", "L", "E", ".", "C", "O", "M", "/", "3">>
TXT_TITLE == <<"N", "e", "e", "d", " ", "V", "P", "N", " ", "a", "c", "c", "e", "s", "s", " ", "f", "o", "r", " ", "n", "e", "w", " ", "h", "i", "r", "e">>
TXT_SUMMARY == <<"R", "i", "a", "s", "s", "u", "n", "t", "o">>
TXT_PLEASE_FIX == <<"p", "l", "e", "a", "s", "e", " ", "f", "i", "x">>
TXT_I_HAVE_AN_ISSUE == <<"I", " ", "h", "a", "v", "e", " ", "a", "n", " ", "i", "s", "s", "u", "e">>
TXT_HELP == <<"h", "e", "l", "p">>
TXT_SOMETHING == <<"s", "o", "m", "e", "t", "h", "i", "n", "g">>
TXT_NOT_WORKING == <<"n", "o", "t", " ", "w", "o", "r", "k", "i", "n", "g">>
TXT_IS_WORKING == <<"i", "s", " ", "w", "o", "r", "k", "i", "n", "g">>
TXT_CRM_TAG == <<"C", "R", "M", ":", " ">>
TXT_CRM_DASH == <<"c", "r", "m", " ", "-", " ">>
TXT_X == <<"x">>

\* n words separated by single spaces
RECURSIVE Words(_)
Words(n) ==
  IF n = 0 THEN <<>>
  ELSE IF n = 1 THEN <<"w">>
  ELSE <<"w", " ">> \o Words(n - 1)

\* a sentence of n words, closed by a full stop
Sentence(n) == IF n = 0 THEN <<>> ELSE Words(n) \o <<".">>

\* descriptions of 0..MaxWords words, the long ones also behind a "CRM: " label,
\* and the generic complaints
Descriptions ==
  {Sentence(n) : n \in 0..MaxWords}
    \cup {TXT_CRM_TAG \o Sentence(n) : n \in (MIN_WORDS - 1)..MaxWords}
    \cup {TXT_PLEASE_FIX, TXT_I_HAVE_AN_ISSUE}

Headers == {NoHeader, "wrong", FORMS_SHARED_SECRET}

Bodies(Ds, Cs, Ps, Es, As) ==
  [description : Ds, categoria : Cs, priorita : Ps, email : Es,
   link_of_record : {TXT_LINK}, attachments : As]

Configs(Keys, Users, Passes, Cols) ==
  [GEMINI_API_KEY : Keys, SMTP_USER_REJECT : Users, SMTP_PASS_REJECT : Passes,
   columns : Cols]

GoodFields ==
  [kind |-> "obj", Descrizione |-> Str(TXT_SUMMARY),
   Allegati |-> <<Str(URL_DOCS), Str(URL_EVIL)>>, Link |-> Str(TXT_LINK),
   Email |-> [kind |-> "obj", email |-> TXT_EMAIL, text |-> TXT_EMAIL]]

Verdict(na, rd, cat, pri, title, fields) ==
  [next_action |-> na, router_decision |-> rd, categoria |-> cat, priorita |-> pri,
   normalized_title |-> title, monday_fields |-> fields]

\* the replies of the oracle when the gate is the subject: every failure, the
\* empty JSON values, a non-object, and a few verdicts
GateVerdicts ==
  {Verdict(Str(CREATE), Str(CREATE), Str(c), Str(PRI_ALTA), Str(TXT_TITLE), GoodFields) :
     c \in {CAT_CRM, TXT_FOO}}
  \cup {Verdict(Absent, Absent, Str(CAT_CRM), Str(PRI_ALTA), Str(TXT_TITLE), GoodFields),
        Verdict(Str(CREATE), Str(CREATE), Str(CAT_CRM), Str(PRI_ALTA), Absent, GoodFields)}

GateReplies ==
  {Failure(k) : k \in OracleFailures}
    \cup {Json(AiNone), Json(AiEmptyObject), Json(AiList)}
    \cup {Json(AiObject(v)) : v \in GateVerdicts}

\* ------------------------------------------------------- the specification
TitleIdle ==
  /\ t_pc = "idle" /\ t_category = <<>> /\ t_candidate = <<>>
  /\ t_title = <<>> /\ t_retitle = <<>>

FilterIdle == f_pc = "idle" /\ f_urls = <<>> /\ f_out = <<>>

NoRequest ==
  [x_forms_secret |-> NoHeader,
   p |-> [description |-> <<>>, categoria |-> <<>>, priorita |-> <<>>, email |-> <<>>,
          link_of_record |-> <<>>, attachments |-> <<>>]]
NoConfig ==
  [GEMINI_API_KEY |-> FALSE, SMTP_USER_REJECT |-> FALSE, SMTP_PASS_REJECT |-> FALSE,
   columns |-> {}]

\* no request is being handled
WebhookIdle ==
  /\ pc = "idle" /\ request = NoRequest /\ cfg = NoConfig
  /\ oracle_reply = NotAsked /\ ai_decision = AiNone /\ gemini_calls = 0
  /\ pending = NoPending /\ monday_calls = <<>> /\ smtp_log = <<>>
  /\ response = NoResponse

\* a request arrives at a freshly loaded module
WebhookStart(Hs, Bs, Cfgs) ==
  /\ pc = "start"
  /\ request \in [x_forms_secret : Hs, p : Bs]
  /\ cfg \in Cfgs
  /\ oracle_reply = NotAsked
  /\ ai_decision = AiNone
  /\ gemini_calls = 0
  /\ pending = NoPending
  /\ monday_calls = <<>>
  /\ smtp_log = <<>>
  /\ response = NoResponse

WebhookInit(Hs, Bs, Cfgs) == WebhookStart(Hs, Bs, Cfgs) /\ TitleIdle /\ FilterIdle

Init ==
  WebhookInit(Headers,
              Bodies(Descriptions,
                     {TXT_CRM_PADDED, CAT_OPERATIONS, TXT_FOO, TXT_OPERATIONS_LOWER},
                     {PRI_ALTA}, {<<>>, TXT_EMAIL},
                     {<<>>, <<Str(URL_DRIVE), Str(URL_EVIL)>>}),
              Configs(BOOLEAN, BOOLEAN, BOOLEAN, {{}, ColumnNames}))

Next ==
  \/ Authenticate
  \/ CallGemini(GateReplies)
  \/ AcceptByAI
  \/ RejectByAI
  \/ RejectByRules
  \/ AcceptByRules
  \/ monday_create

Spec == Init /\ [][Next]_vars


\* ------------------------------------------- the oracle's verdicts in depth
ListFields == [NoFields EXCEPT !.kind = "list"]
BadEmailFields == [GoodFields EXCEPT !.Email = [kind |-> "str", email |-> <<>>, text |-> <<>>]]

OracleVerdicts ==
  {Verdict(na, rd, cat, pri, title, fields) :
     na \in {Str(TXT_CREATE_UPPER), Str(TXT_ASK_CLARIFY), Absent, Num},
     rd \in {Str(CREATE), Str(TXT_ASK_CLARIFY)},
     cat \in {Str(TXT_CRM_PADDED), Str(CAT_OPERATIONS), Str(TXT_FOO), Null, Absent},
     pri \in {Str(TXT_ALTA_PADDED), Str(TXT_HIGH), Null},
     title \in {Str(TXT_TITLE), Str(<<" ">>)},
     fields \in {GoodFields, NoFields, ListFields, BadEmailFields}}

OracleReplies ==
  {Failure("timeout"), Json(AiList)} \cup {Json(AiObject(v)) : v \in OracleVerdicts}

OracleInit ==
  WebhookInit({FORMS_SHARED_SECRET, "wrong"},
              Bodies({Sentence(3), Sentence(MaxWords)},
                     {TXT_CRM_PADDED, CAT_OPERATIONS, TXT_FOO},
                     {PRI_ALTA, TXT_HIGH}, {TXT_EMAIL},
                     {<<Str(URL_DRIVE), Str(URL_EVIL)>>}),
              Configs(BOOLEAN, BOOLEAN, {TRUE}, {{}, ColumnNames}))

OracleNext ==
  \/ Authenticate
  \/ CallGemini(OracleReplies)
  \/ AcceptByAI
  \/ RejectByAI
  \/ RejectByRules
  \/ AcceptByRules
  \/ monday_create

OracleSpec == OracleInit /\ [][OracleNext]_vars

\* ------------------------------------------------------ the title builder
TitlePieces ==
  {TXT_CRM_TAG, TXT_CRM_DASH, CAT_CONSOLE, CAT_OPERATIONS, TXT_TITLE, TXT_X,
   <<" ">>, <<":">>, <<EM_DASH>>}

\* the texts made of at most n pieces
RECURSIVE Candidates(_)
Candidates(n) ==
  IF n = 0 THEN {<<>>}
  ELSE LET shorter == Candidates(n - 1)
       IN  shorter \cup {piece \o c : piece \in TitlePieces, c \in shorter}

TitleInit ==
  /\ t_pc = "input"
  /\ t_category \in VALID_CATEGORIES
  /\ t_candidate \in Candidates(MaxPieces)
  /\ t_title = <<>>
  /\ t_retitle = <<>>
  /\ WebhookIdle
  /\ FilterIdle

\* final_title = build_title_with_category(categoria, candidate)
BuildTitle ==
  /\ t_pc = "input"
  /\ t_title' = build_title_with_category(t_category, t_candidate)
  /\ t_pc' = "built"
  /\ UNCHANGED <<t_category, t_candidate, t_retitle>>
  /\ UNCHANGED <<webhook_vars, filter_vars>>

\* the builder applied to its own result
RebuildTitle ==
  /\ t_pc = "built"
  /\ t_retitle' = build_title_with_category(t_category, t_title)
  /\ t_pc' = "rebuilt"
  /\ UNCHANGED <<t_category, t_candidate, t_title>>
  /\ UNCHANGED <<webhook_vars, filter_vars>>

TitleNext == BuildTitle \/ RebuildTitle

TitleSpec == TitleInit /\ [][TitleNext]_vars

\* --------------------------------------------------- the attachment filter
UrlEntries == {Str(URL_DRIVE), Str(URL_DOCS), Str(URL_EVIL), Str(URL_UPPER), Num}

\* the lists of at most n entries
RECURSIVE UrlLists(_)
UrlLists(n) ==
  IF n = 0 THEN {<<>>}
  ELSE LET shorter == UrlLists(n - 1)
       IN  shorter \cup {<<u>> \o l : u \in UrlEntries, l \in shorter}

FilterInit ==
  /\ f_pc = "input"
  /\ f_urls \in UrlLists(MaxUrls)
  /\ f_out = <<>>
  /\ WebhookIdle
  /\ TitleIdle

FilterApply ==
  /\ f_pc = "input"
  /\ f_out' = filter_drive_links(f_urls)
  /\ f_pc' = "done"
  /\ UNCHANGED f_urls
  /\ UNCHANGED <<webhook_vars, title_vars>>

\* requests whose attachments and whose verdict's Allegati vary
AttachVerdicts ==
  {Verdict(Str(CREATE), Str(CREATE), Str(CAT_CRM), Str(PRI_ALTA), Str(TXT_TITLE),
           [GoodFields EXCEPT !.Allegati = l]) : l \in UrlLists(MaxUrls - 1)}

AttachReplies ==
  {Failure("timeout"), Json(AiList)} \cup {Json(AiObject(v)) : v \in AttachVerdicts}

AttachInit ==
  \/ FilterInit
  \/ WebhookInit({FORMS_SHARED_SECRET, NoHeader},
                 Bodies({Sentence(3), Sentence(MaxWords)}, {CAT_CRM},
                        {PRI_ALTA}, {TXT_EMAIL}, UrlLists(MaxUrls - 1)),
                 Configs(BOOLEAN, {TRUE}, {TRUE}, {{}, ColumnNames}))

AttachNext ==
  \/ FilterApply
  \/ Authenticate
  \/ CallGemini(AttachReplies)
  \/ AcceptByAI
  \/ RejectByAI
  \/ RejectByRules
  \/ AcceptByRules
  \/ monday_create

AttachSpec == AttachInit /\ [][AttachNext]_vars


\* ================================================================== claims
\* the request passed the secret check and the handler has consulted (or
\* skipped) the oracle
Routed == pc \in {"monday_create", "done"} /\ request.x_forms_secret = FORMS_SHARED_SECRET
\* the handler decided to create: it is about to call, or has called, the board
CreateDecided == pc = "monday_create" \/ monday_calls # <<>>
\* the response is the structured non-creation outcome
ClarifyResponse == response.status = 200 /\ ~response.ok /\ response.reason # ""

\* the Vagueness Gate as the specification words it (section 4.2)
OperationsCategory(c) == StartsWith(Upper(c), OPERATIONS_WORD)
GenericComplaint(d) ==
  LET l == Lower(d)
  IN  \/ Contains(l, Lower(TXT_I_HAVE_AN_ISSUE))
      \/ Contains(l, TXT_SOMETHING \o <<" ">> \o TXT_NOT_WORKING)
      \/ Contains(l, TXT_SOMETHING \o <<" ">> \o TXT_IS_WORKING)
      \/ Contains(l, TXT_SOMETHING \o <<" ">> \o <<"i", "s", " ">> \o TXT_NOT_WORKING)
      \/ Contains(l, TXT_PLEASE_FIX)
      \/ Strip(l) = TXT_HELP
VaguenessGateAccepts(d, c) ==
  (WordCount(d) >= 10 \/ OperationsCategory(c)) /\ ~GenericComplaint(d)

\* C1: with no oracle verdict, a board-creation call is made only if the
\* Vagueness Gate accepts the description and category: at least 10 words unless
\* the category is the operations one, and no generic-complaint pattern.
C1_CreateOnlyIfGateAccepts ==
  (Routed /\ ~Truthy(ai_decision) /\ monday_calls # <<>>)
    => VaguenessGateAccepts(description, categoria)

\* C2: a request whose secret header is absent or differs from the configured
\* secret ends in 401, and no oracle call, board call or mail send is made.
C2_BadSecretIsUnauthorized ==
  request.x_forms_secret # FORMS_SHARED_SECRET =>
    /\ pc \in {"start", "done"}
    /\ gemini_calls = 0 /\ monday_calls = <<>> /\ smtp_log = <<>>
    /\ pc = "done" => (response.status = 401 /\ ~response.ok)

C2_Witness ==
  /\ pc = "done"
  /\ request.x_forms_secret = NoHeader
  /\ request.p.description = Sentence(MaxWords)
  /\ cfg.GEMINI_API_KEY
  /\ response.status = 401

\* C3: an authenticated request whose category is not one of the four
\* allow-listed strings never leads to a board-creation call, on any path.
C3_UnlistedCategoryNeverCreates ==
  (Routed /\ categoria \notin VALID_CATEGORIES) =>
    /\ monday_calls = <<>>
    /\ pc = "done" => ClarifyResponse

\* what the handler reads from a verdict: text is trimmed, the flags lower-cased
FlagsSayCreate(v) ==
  /\ Strip(Lower(OrEmpty(v.next_action))) = CREATE
  /\ Strip(Lower(OrEmpty(v.router_decision))) = CREATE
PriorityValid(v) == v.priorita.kind = "str" /\ Strip(v.priorita.s) \in VALID_PRIORITIES
TitlePresent(v) == v.normalized_title.kind = "str" /\ Strip(v.normalized_title.s) # <<>>
\* a value of the wrong JSON type where the handler calls a str or dict method
TypeErrorInFlags(ai) ==
  ai.kind # "obj" \/ ai.v.next_action.kind = "num" \/ ai.v.router_decision.kind = "num"
TypeErrorInLabels(v) ==
  \/ v.categoria.kind \in {"null", "num"}
  \/ v.priorita.kind \in {"null", "num"}
  \/ v.normalized_title.kind = "num"

\* a verdict usable for creation, and the reason of a rejection, read literally
C4_Stated_Usable(ai) ==
  /\ ai.kind = "obj"
  /\ FlagsSayCreate(ai.v)
  /\ ai.v.categoria = Str(categoria)
  /\ PriorityValid(ai.v)
  /\ TitlePresent(ai.v)
C4_Stated_Reason(ai) ==
  IF ai.v.categoria # Str(categoria) THEN "Rejected by AI: categoria_mismatch"
  ELSE IF ~PriorityValid(ai.v) THEN "Rejected by AI: priorita_invalid"
  ELSE "Rejected by AI: title_missing"
C4_Usable(ai) ==
  /\ ai.kind = "obj"
  /\ FlagsSayCreate(ai.v)
  /\ ai.v.categoria.kind = "str"
  /\ Strip(ai.v.categoria.s) = categoria
  /\ categoria \in VALID_CATEGORIES
  /\ PriorityValid(ai.v)
  /\ TitlePresent(ai.v)
C4_Reason(ai) ==
  IF TypeErrorInFlags(ai) THEN "Rejected by AI: invalid_ai_response"
  ELSE IF ~FlagsSayCreate(ai.v) THEN "Rejected by AI: ask_clarify"
  ELSE IF TypeErrorInLabels(ai.v) THEN "Rejected by AI: invalid_ai_response"
  ELSE IF ~(Strip(ai.v.categoria.s) = categoria /\ categoria \in VALID_CATEGORIES)
    THEN "Rejected by AI: categoria_mismatch"
  ELSE IF ~PriorityValid(ai.v) THEN "Rejected by AI: priorita_invalid"
  ELSE "Rejected by AI: title_missing"
OracleEnded(kinds) == cfg.GEMINI_API_KEY /\ oracle_reply.kind \in kinds
\* a parsed reply that lacks a required verdict field
MissingVerdictField(value) ==
  \/ value.kind = "emptyobj"
  \/ /\ value.kind = "obj"
     /\ \/ value.v.next_action = Absent \/ value.v.router_decision = Absent
        \/ value.v.categoria = Absent \/ value.v.priorita = Absent
        \/ value.v.normalized_title = Absent \/ value.v.monday_fields.kind = "absent"
\* the request was decided by the fallback rule of the handler alone, and no
\* oracle failure or oracle rejection shows in the response
DecidedByRulesAlone ==
  /\ (monday_calls # <<>>) <=> ~TooShort
  /\ response.status \in {500, 502} => monday_calls # <<>>
  /\ response.ok => response.source = "rules"
  /\ (response.status = 200 /\ ~response.ok) =>
       response.reason = "Rejected: description too short/vague"
AiRejections ==
  {"Rejected by AI: " \o r :
     r \in {"ask_clarify", "categoria_mismatch", "priorita_invalid", "title_missing",
            "invalid_ai_response"}}

C6_TenWordBoundary ==
  (pc = "done" /\ Routed /\ ~Truthy(ai_decision)
     /\ categoria \in VALID_CATEGORIES /\ ~OperationsCategory(categoria)) =>
    /\ WordCount(description) <= 9 => (monday_calls = <<>> /\ ClarifyResponse)
    /\ (WordCount(description) >= 10 /\ ~GenericComplaint(description)) =>
         /\ Len(monday_calls) = 1
         /\ StartsWith(monday_calls[1].item_name, categoria \o <<":", " ">>)

\* C7: the built title never carries the prefix "cat: " twice (a candidate that
\* already begins with the category prefix yields no "CRM: CRM: ..."), and
\* building again from a built title gives the same title.
C7_SinglePrefixAndIdempotent ==
  LET prefix == t_category \o <<":", " ">>
  IN  /\ t_pc \in {"built", "rebuilt"} => ~StartsWith(t_title, prefix \o prefix)
      /\ t_pc = "rebuilt" => t_retitle = t_title

\* C8: the title is at most 30 long; when "category: core" exceeds 30 it is its
\* first 29 characters and one ellipsis, else it is unchanged; and the whole
\* "category: " prefix is always present in it.
C8_TitleBoundedWithPrefix ==
  t_pc \in {"built", "rebuilt"} =>
    LET stripped == strip_any_leading_category(t_candidate)
        full == t_category \o <<":", " ">> \o (IF stripped = <<>> THEN TICKET ELSE stripped)
    IN  /\ Len(t_title) <= 30
        /\ IF Len(full) > 30
           THEN t_title = SubSeq(full, 1, 29) \o <<ELLIPSIS>>
           ELSE t_title = full
        /\ StartsWith(t_title, t_category \o <<":", " ">>)

\* the entries the filter is to keep: strings holding one of the two host names
HoldsHost(s, host) == \E i \in 1..Len(s) : i + Len(host) - 1 <= Len(s) /\
                        \A k \in 1..Len(host) : s[i + k - 1] = host[k]
Kept(u) == u.kind = "str" /\ (HoldsHost(u.s, DRIVE_HOST) \/ HoldsHost(u.s, DOCS_HOST))
\* out is the subsequence of inp made of its kept entries, in order, duplicates kept
KeptSubsequence(out, inp) ==
  LET keep == {i \in 1..Len(inp) : Kept(inp[i])}
      nth(k) == CHOOSE i \in keep : Cardinality({j \in keep : j < i}) = k - 1
  IN  /\ Len(out) = Cardinality(keep)
      /\ \A k \in 1..Len(out) : out[k] = inp[nth(k)]
\* the URLs of an attachment column: the lines of its text
RECURSIVE Lines(_)
Lines(text) ==
  IF text = <<>> THEN <<>>
  ELSE LET breaks == {i \in 1..Len(text) : text[i] = "\n"}
       IN  IF breaks = {} THEN <<text>>
           ELSE <<SubSeq(text, 1, MinOf(breaks) - 1)>> \o Lines(Drop(text, MinOf(breaks)))
\* the list the handler filters: the verdict's Allegati if any, else the body's
FilteredList ==
  IF pending.source = "gemini" /\ ai_decision.v.monday_fields.Allegati # <<>>
  THEN ai_decision.v.monday_fields.Allegati ELSE attachments

\* C9: filter_drive_links returns exactly the entries that are strings holding
\* "drive.google.com" or "docs.google.com", in order and with duplicates; and on
\* both create paths every URL in the board's attachment column is one of them.
C9_OnlyDriveLinksDispatched ==
  /\ f_pc = "done" => KeptSubsequence(f_out, f_urls)
  /\ \A n \in 1..Len(monday_calls) :
       LET col == monday_calls[n].column_values.attachments
       IN  col.set =>
             /\ \A i \in 1..Len(Lines(col.v)) : Kept(Str(Lines(col.v)[i]))
             /\ \E out \in UrlLists(Len(FilteredList)) :
                  KeptSubsequence(out, FilteredList) /\ col.v = JoinLines(out)

C9_Witness ==
  /\ pc = "done"
  /\ pending.source = "gemini"
  /\ ai_decision.v.monday_fields.Allegati = <<Str(URL_EVIL), Str(URL_DOCS)>>
  /\ attachments = <<Str(URL_DRIVE)>>
  /\ Len(monday_calls) = 1
  /\ monday_calls[1].column_values.attachments = [set |-> TRUE, v |-> URL_DOCS]

\* the handler's decision: the verdict was rejected, or the fallback rule said
\* too short
RoutedToClarify ==
  /\ pc = "done" /\ Routed
  /\ \/ Truthy(ai_decision) /\ ~validate_ai_output(ai_decision, categoria).accepted
     \/ ~Truthy(ai_decision) /\ TooShort
MailConfigured == cfg.SMTP_USER_REJECT /\ cfg.SMTP_PASS_REJECT

\* C10: a request routed to Clarify makes no board call and answers ok false
\* with a reason in all three mail cases: mail not configured or recipient empty
\* (no SMTP connection is attempted), mail sent, and mail failed on both
\* transports; the mail result shows only in email_sent.
C10_ClarifyWhateverTheMail ==
  RoutedToClarify =>
    /\ monday_calls = <<>>
    /\ ClarifyResponse
    /\ response.email_sent \in {"true", "false"}
    /\ ~(MailConfigured /\ reporter_email # <<>>) =>
         (smtp_log = <<>> /\ response.email_sent = "false")
    /\ response.email_sent = "true" =>
         smtp_log \in {<<"STARTTLS">>, <<"STARTTLS", "SSL">>}
    /\ (MailConfigured /\ reporter_email # <<>> /\ response.email_sent = "false") =>
         smtp_log = <<"STARTTLS", "SSL">>

C10_Witness ==
  /\ RoutedToClarify
  /\ ~Truthy(ai_decision)
  /\ smtp_log = <<"STARTTLS", "SSL">>
  /\ response.email_sent = "false"
  /\ response.reason = "Rejected: description too short/vague"

\* C11: when a request reaches Created through an accepted oracle verdict, the
\* priority label sent to the board's priority column is one of URGENTE, MEDIA,
\* ALTA, BASSA (the label that was validated is the label that is sent), for
\* every pair of submission priority and verdict priority.
C11_DispatchedPriorityCanonical ==
  (pc = "done" /\ response.ok /\ response.source = "gemini") =>
    \A n \in 1..Len(monday_calls) :
      monday_calls[n].column_values.priority.set =>
        /\ monday_calls[n].column_values.priority.v \in VALID_PRIORITIES
        /\ monday_calls[n].column_values.priority.v = Strip(ai_decision.v.priorita.s)

====
